---- MODULE Spec2Model ----
(***************************************************************************)
(* facts-worker: extraction / normalisation / drift pipeline               *)
(* (workers/facts-worker/rlm_facts.py and app.py).                         *)
(*                                                                         *)
(* Representation of Python values                                         *)
(*   str            a tuple of one-character strings, <<"a", " ">>         *)
(*   JSON value     a tagged pair <<tag, payload>>:                        *)
(*                    <<"null", <<>>>>      None                           *)
(*                    <<"bool", TRUE>>      True / False                   *)
(*                    <<"num",  n>>         a number                       *)
(*                    <<"str",  s>>         a str                          *)
(*                    <<"list", items>>     a list (tuple of JSON values)  *)
(*                    <<"dict", pairs>>     a dict, insertion ordered      *)
(*                                          (tuple of <<key, value>>)      *)
(*   List[str]      a tuple of str                                         *)
(***************************************************************************)
EXTENDS Integers, Sequences, FiniteSets, TLC

VARIABLES
    \* a call of _to_string_list
    cpc,            \* "idle", "called" or "returned"
    val,            \* the decoded JSON value handed to _to_string_list
    strs,           \* the list it returned
    \* a call of _truncate_context_for_prompt
    tpc,            \* "idle", "called" or "returned"
    context,        \* the event list
    max_chars,      \* the character budget
    limited,        \* the event list it returned
    \* a call of compute_drift
    dpc,            \* "idle", "entered", "level_low", "level_high", "return",
                    \* "returned"
    new,            \* the new Facts record
    old,            \* the previous snapshot: JNull (None) or a JDict
    dcontext,       \* the context argument
    drift_types,    \* local drift_types
    references,     \* local references
    level,          \* local level
    drift,          \* the Drift it returned
    \* the worker process and the /extract request it is serving
    env,            \* the environment read at start-up and by the lazy loaders
    gliner_model,   \* _gliner_model is not None
    nli_model,      \* _nli_model is not None
    busy,           \* app._busy
    pc,             \* position of the request inside extract_facts_and_drift
    req,            \* the request: context and previous_facts
    context_limited,\* local context_limited
    gliner_entities,\* local gliner_entities
    facts,          \* local facts
    response,       \* what /extract answered
    calls,          \* the backend calls the request has made, in order
    \* two calls of stable_hash
    hpc,            \* "idle", "called" or "returned"
    rec_a, rec_b,   \* the two objects hashed
    hash_a, hash_b, \* the two digests
    \* a call of _detect_contradictions_nli
    npc,            \* "idle", "called" or "returned"
    nli_claims,     \* the claims argument
    scorer,         \* what the backend's predict does
    scored,         \* the pairs handed to predict
    nli_out,        \* the descriptions returned
    \* threads of the worker inside _get_gliner / _get_nli
    tpos,           \* position of each thread
    handle,         \* _gliner_model and _nli_model: 0 is None, else the id of
                    \* the object stored
    built,          \* how many handles each loader has constructed
    \* threads of the worker inside extract(), and GET /health
    serving,        \* position of each thread inside extract()
    health          \* what /health last answered, and when

canonVars == <<cpc, val, strs>>
truncVars == <<tpc, context, max_chars, limited>>
driftVars == <<dpc, new, old, dcontext, drift_types, references, level, drift>>

procVars == <<env, gliner_model, nli_model>>
reqVars ==
    <<busy, pc, req, context_limited, gliner_entities, facts, response, calls>>
pipeVars == <<procVars, reqVars>>

hashVars == <<hpc, rec_a, rec_b, hash_a, hash_b>>
nliVars == <<npc, nli_claims, scorer, scored, nli_out>>
loadVars == <<tpos, handle, built>>
busyVars == <<serving, health>>
auxVars == <<hashVars, nliVars, loadVars, busyVars>>

vars == <<canonVars, truncVars, driftVars, pipeVars, auxVars>>

-----------------------------------------------------------------------------
(* Bounds of the model                                                     *)

MaxItems == 2       \* longest list of strings drawn as an input
MaxEvents == 3      \* longest context drawn as an input
MaxBudget == 48     \* largest character budget drawn as an input
NumThreads == 2     \* threads serving requests at the same time

-----------------------------------------------------------------------------
(* Strings                                                                 *)

SP == " "

IsSpace(c) == c = SP

RECURSIVE LStrip(_)
\* str.lstrip(): drop leading whitespace
LStrip(s) ==
    IF s = <<>> THEN <<>>
    ELSE IF IsSpace(Head(s)) THEN LStrip(Tail(s))
    ELSE s

RECURSIVE RStrip(_)
\* str.rstrip(): drop trailing whitespace
RStrip(s) ==
    IF s = <<>> THEN <<>>
    ELSE IF IsSpace(s[Len(s)]) THEN RStrip(SubSeq(s, 1, Len(s) - 1))
    ELSE s

\* str.strip()
Strip(s) == RStrip(LStrip(s))

RECURSIVE Join(_, _)
\* sep.join(parts)
Join(sep, parts) ==
    IF parts = <<>> THEN <<>>
    ELSE IF Len(parts) = 1 THEN parts[1]
    ELSE parts[1] \o sep \o Join(sep, Tail(parts))

\* s[:n]
Take(s, n) == SubSeq(s, 1, IF Len(s) < n THEN Len(s) ELSE n)

Range(f) == {f[i] : i \in DOMAIN f}

\* all tuples over S with at most n elements
SeqsUpTo(S, n) == UNION {[1..k -> S] : k \in 0..n}

-----------------------------------------------------------------------------
(* JSON values                                                             *)

JNull == <<"null", <<>>>>
JBool(b) == <<"bool", b>>
JNum(n) == <<"num", n>>
JStr(s) == <<"str", s>>
JList(items) == <<"list", items>>
JDict(pairs) == <<"dict", pairs>>

Tag(v) == v[1]
Payload(v) == v[2]

IsNull(v) == Tag(v) = "null"
IsStr(v) == Tag(v) = "str"
IsList(v) == Tag(v) = "list"
IsDict(v) == Tag(v) = "dict"

\* Python truthiness of a decoded JSON value
Truthy(v) ==
    CASE Tag(v) = "null" -> FALSE
      [] Tag(v) = "bool" -> Payload(v)
      [] Tag(v) = "num"  -> Payload(v) # 0
      [] OTHER           -> Payload(v) # <<>>

\* decimal digits of a natural number
DigitChar(d) ==
    CASE d = 0 -> "0" [] d = 1 -> "1" [] d = 2 -> "2" [] d = 3 -> "3"
      [] d = 4 -> "4" [] d = 5 -> "5" [] d = 6 -> "6" [] d = 7 -> "7"
      [] d = 8 -> "8" [] d = 9 -> "9"

RECURSIVE Digits(_)
Digits(n) ==
    IF n < 10 THEN <<DigitChar(n)>>
    ELSE Digits(n \div 10) \o <<DigitChar(n % 10)>>

RECURSIVE PyRepr(_)
RECURSIVE MapRepr(_)
RECURSIVE MapPairRepr(_)

\* repr(v) of a decoded JSON value
PyRepr(v) ==
    CASE Tag(v) = "null" -> <<"N", "o", "n", "e">>
      [] Tag(v) = "bool" -> IF Payload(v) THEN <<"T", "r", "u", "e">>
                            ELSE <<"F", "a", "l", "s", "e">>
      [] Tag(v) = "num"  -> Digits(Payload(v))
      [] Tag(v) = "str"  -> <<"'">> \o Payload(v) \o <<"'">>
      [] Tag(v) = "list" ->
            <<"[">> \o Join(<<",", SP>>, MapRepr(Payload(v))) \o <<"]">>
      [] Tag(v) = "dict" ->
            <<"{">> \o Join(<<",", SP>>, MapPairRepr(Payload(v))) \o <<"}">>

MapRepr(items) ==
    IF items = <<>> THEN <<>>
    ELSE <<PyRepr(Head(items))>> \o MapRepr(Tail(items))

MapPairRepr(pairs) ==
    IF pairs = <<>> THEN <<>>
    ELSE << <<"'">> \o Head(pairs)[1] \o <<"'", ":", SP>> \o PyRepr(Head(pairs)[2]) >>
         \o MapPairRepr(Tail(pairs))

\* str(v): a str is itself, anything else is its repr
PyStr(v) == IF IsStr(v) THEN Payload(v) ELSE PyRepr(v)

RECURSIVE MapStr(_)
\* [str(x) for x in items]
MapStr(items) ==
    IF items = <<>> THEN <<>>
    ELSE <<PyStr(Head(items))>> \o MapStr(Tail(items))

\* code-point order of the characters that occur in dict keys
Alphabet ==
    <<SP, "0", "1", "2", "3", "4", "5", "6", "7", "8", "9", "_",
      "a", "b", "c", "d", "e", "f", "g", "h", "i", "j", "k", "l", "m",
      "n", "o", "p", "q", "r", "s", "t", "u", "v", "w", "x", "y", "z">>

CharCode(c) == CHOOSE i \in 1..Len(Alphabet) : Alphabet[i] = c

RECURSIVE StrLess(_, _)
\* a < b on str (lexicographic by code point)
StrLess(a, b) ==
    IF b = <<>> THEN FALSE
    ELSE IF a = <<>> THEN TRUE
    ELSE IF Head(a) = Head(b) THEN StrLess(Tail(a), Tail(b))
    ELSE CharCode(Head(a)) < CharCode(Head(b))

RECURSIVE InsertPair(_, _)
InsertPair(pair, sorted) ==
    IF sorted = <<>> THEN <<pair>>
    ELSE IF StrLess(pair[1], Head(sorted)[1]) THEN <<pair>> \o sorted
    ELSE <<Head(sorted)>> \o InsertPair(pair, Tail(sorted))

RECURSIVE SortPairs(_)
\* sort_keys=True: the items of a dict in key order
SortPairs(pairs) ==
    IF pairs = <<>> THEN <<>>
    ELSE InsertPair(Head(pairs), SortPairs(Tail(pairs)))

RECURSIVE EscapeJson(_)
\* the body of a JSON string literal: a quote and a backslash are escaped
EscapeJson(s) ==
    IF s = <<>> THEN <<>>
    ELSE (IF Head(s) = "\"" THEN <<"\\", "\"">>
          ELSE IF Head(s) = "\\" THEN <<"\\", "\\">>
          ELSE <<Head(s)>>)
         \o EscapeJson(Tail(s))

RECURSIVE JsonDumps(_, _, _, _)
RECURSIVE MapDumps(_, _, _, _)
RECURSIVE MapPairDumps(_, _, _, _)

\* json.dumps(v, separators=(isep, ksep), sort_keys=sort, ensure_ascii=False);
\* the strings of the model hold no control character
JsonDumps(v, isep, ksep, sort) ==
    CASE Tag(v) = "null" -> <<"n", "u", "l", "l">>
      [] Tag(v) = "bool" -> IF Payload(v) THEN <<"t", "r", "u", "e">>
                            ELSE <<"f", "a", "l", "s", "e">>
      [] Tag(v) = "num"  -> Digits(Payload(v))
      [] Tag(v) = "str"  -> <<"\"">> \o EscapeJson(Payload(v)) \o <<"\"">>
      [] Tag(v) = "list" ->
            <<"[">> \o Join(isep, MapDumps(Payload(v), isep, ksep, sort))
                    \o <<"]">>
      [] Tag(v) = "dict" ->
            <<"{">> \o Join(isep,
                            MapPairDumps(IF sort THEN SortPairs(Payload(v))
                                         ELSE Payload(v), isep, ksep, sort))
                    \o <<"}">>

MapDumps(items, isep, ksep, sort) ==
    IF items = <<>> THEN <<>>
    ELSE <<JsonDumps(Head(items), isep, ksep, sort)>>
         \o MapDumps(Tail(items), isep, ksep, sort)

MapPairDumps(pairs, isep, ksep, sort) ==
    IF pairs = <<>> THEN <<>>
    ELSE << <<"\"">> \o EscapeJson(Head(pairs)[1]) \o <<"\"">> \o ksep
            \o JsonDumps(Head(pairs)[2], isep, ksep, sort) >>
         \o MapPairDumps(Tail(pairs), isep, ksep, sort)

\* json.dumps(v, separators=(",", ":"), ensure_ascii=False)
Dumps(v) == JsonDumps(v, <<",">>, <<":">>, FALSE)

\* the keys left in insertion order
DumpsUnsorted(v) == JsonDumps(v, <<",", SP>>, <<":", SP>>, FALSE)

\* json.dumps(v, sort_keys=True, ensure_ascii=False)
DumpsSorted(v) == JsonDumps(v, <<",", SP>>, <<":", SP>>, TRUE)

\* dict.get(key): the value stored under key, None when the key is absent
RECURSIVE DictGet(_, _)
DictGet(pairs, key) ==
    IF pairs = <<>> THEN JNull
    ELSE IF Head(pairs)[1] = key THEN Head(pairs)[2]
    ELSE DictGet(Tail(pairs), key)

RECURSIVE HasKey(_, _)
HasKey(pairs, key) ==
    IF pairs = <<>> THEN FALSE
    ELSE Head(pairs)[1] = key \/ HasKey(Tail(pairs), key)

-----------------------------------------------------------------------------
(* Normalize LLM output: _to_string_list                                   *)

kClaim == <<"c", "l", "a", "i", "m">>
kRisk == <<"r", "i", "s", "k">>
kAssumption == <<"a", "s", "s", "u", "m", "p", "t", "i", "o", "n">>
kContradiction ==
    <<"c", "o", "n", "t", "r", "a", "d", "i", "c", "t", "i", "o", "n">>
kGoal == <<"g", "o", "a", "l">>
kText == <<"t", "e", "x", "t">>
kEntity == <<"e", "n", "t", "i", "t", "y">>

\* the keys tried in order by the `or` chain of the dict-item branch
PreferredKeys ==
    <<kClaim, kRisk, kAssumption, kContradiction, kGoal, kText, kEntity>>

RECURSIVE FirstStrValue(_)
\* next((v for v in item.values() if isinstance(v, str)), None)
FirstStrValue(pairs) ==
    IF pairs = <<>> THEN JNull
    ELSE IF IsStr(Head(pairs)[2]) THEN Head(pairs)[2]
    ELSE FirstStrValue(Tail(pairs))

RECURSIVE OrChain(_, _)
\* item.get(k1) or item.get(k2) or ... or next(...): the first truthy operand,
\* else the last operand whatever it is
OrChain(pairs, keys) ==
    IF keys = <<>> THEN FirstStrValue(pairs)
    ELSE IF Truthy(DictGet(pairs, Head(keys))) THEN DictGet(pairs, Head(keys))
    ELSE OrChain(pairs, Tail(keys))

\* item.strip() if item.strip() else item   (also: s.strip() or s)
StripOrKeep(s) == IF Strip(s) # <<>> THEN Strip(s) ELSE s

\* the string appended for one element of a list
ItemString(item) ==
    IF IsStr(item) THEN StripOrKeep(Payload(item))
    ELSE IF IsDict(item) THEN
        LET s == OrChain(Payload(item), PreferredKeys)
        IN  IF Truthy(s) /\ IsStr(s) THEN StripOrKeep(Payload(s))
            ELSE PyStr(item)
    ELSE PyStr(item)

RECURSIVE NormalizeItems(_)
\* the list branch: one string per element
NormalizeItems(items) ==
    IF items = <<>> THEN <<>>
    ELSE <<ItemString(Head(items))>> \o NormalizeItems(Tail(items))

\* the strings one list value of a mapping contributes when its first element
\* is not a dict or list: str(x) for x in v
MappingListStrings(items) == MapStr(items)

RECURSIVE FlattenValues(_)
\* the dict branch: flatten val.values() in iteration order
FlattenValues(pairs) ==
    IF pairs = <<>> THEN <<>>
    ELSE LET v == Head(pairs)[2]
             part ==
                 IF IsList(v) THEN
                     IF Payload(v) # <<>>
                        /\ (IsDict(Payload(v)[1]) \/ IsList(Payload(v)[1]))
                     THEN NormalizeItems(Payload(v))
                     ELSE MappingListStrings(Payload(v))
                 ELSE <<PyStr(v)>>
         IN  part \o FlattenValues(Tail(pairs))

to_string_list(v) ==
    IF IsNull(v) THEN <<>>
    ELSE IF IsDict(v) THEN FlattenValues(Payload(v))
    ELSE IF IsList(v) THEN NormalizeItems(Payload(v))
    ELSE <<PyStr(v)>>

-----------------------------------------------------------------------------
(* Prompt size limits: _truncate_context_for_prompt                        *)

\* len(json.dumps(events, separators=(",", ":"), ensure_ascii=False))
SerLen(events) == Len(Dumps(JList(events)))

\* context[:1]
FirstSlice(ctx) == SubSeq(ctx, 1, IF Len(ctx) < 1 THEN Len(ctx) ELSE 1)

RECURSIVE TruncLoopNoPop(_, _, _, _)
\* the loop with the pop forgotten: the event that overflows the budget stays
TruncLoopNoPop(ctx, i, out, budget) ==
    IF i < 1 THEN out
    ELSE LET grown == <<ctx[i]>> \o out
         IN  IF SerLen(grown) > budget THEN grown
             ELSE TruncLoopNoPop(ctx, i - 1, grown, budget)

RECURSIVE TruncLoop(_, _, _, _)
\* the for loop, entered with index i (1-based) and the list built so far:
\* insert context[i] in front; when the list no longer fits, pop it and break
TruncLoop(ctx, i, out, budget) ==
    IF i < 1 THEN out
    ELSE LET grown == <<ctx[i]>> \o out
         IN  IF SerLen(grown) > budget THEN out
             ELSE TruncLoop(ctx, i - 1, grown, budget)

truncate_context_for_prompt(ctx, budget) ==
    IF budget <= 0 THEN ctx
    ELSE IF SerLen(ctx) <= budget THEN ctx
    ELSE LET out == TruncLoop(ctx, Len(ctx), <<>>, budget)
         IN  IF out # <<>> THEN out ELSE FirstSlice(ctx)

-----------------------------------------------------------------------------
(* Typed models and helpers                                                *)

kVersion == <<"v", "e", "r", "s", "i", "o", "n">>
kUpdatedAt == <<"u", "p", "d", "a", "t", "e", "d", "_", "a", "t">>
kEntities == <<"e", "n", "t", "i", "t", "i", "e", "s">>
kClaims == <<"c", "l", "a", "i", "m", "s">>
kRisks == <<"r", "i", "s", "k", "s">>
kAssumptions == <<"a", "s", "s", "u", "m", "p", "t", "i", "o", "n", "s">>
kContradictions ==
    <<"c", "o", "n", "t", "r", "a", "d", "i", "c", "t", "i", "o", "n", "s">>
kGoals == <<"g", "o", "a", "l", "s">>
kConfidence == <<"c", "o", "n", "f", "i", "d", "e", "n", "c", "e">>
kHash == <<"h", "a", "s", "h">>

\* Facts.version default
FactsVersion == 2

\* Facts.confidence default and the fallback of compute_drift: 1.0.
\* A confidence is held in hundredths: 0.9 is 90, 1.0 is 100.
DefaultConfidence == 100

\* Facts(): every field at its default.  hash is Optional[str]: JNull or JStr
DefaultFacts ==
    [version |-> FactsVersion, updated_at |-> <<>>, entities |-> <<>>,
     claims |-> <<>>, risks |-> <<>>, assumptions |-> <<>>,
     contradictions |-> <<>>, goals |-> <<>>,
     confidence |-> DefaultConfidence, hash |-> JNull]

RECURSIVE StrList(_)
\* a List[str] as a JSON list
StrList(ss) ==
    IF ss = <<>> THEN <<>> ELSE <<JStr(Head(ss))>> \o StrList(Tail(ss))

\* facts.model_dump(): every field, hash included, in declaration order
ModelDump(f) ==
    JDict(<< <<kVersion, JNum(f.version)>>,
             <<kUpdatedAt, JStr(f.updated_at)>>,
             <<kEntities, JList(StrList(f.entities))>>,
             <<kClaims, JList(StrList(f.claims))>>,
             <<kRisks, JList(StrList(f.risks))>>,
             <<kAssumptions, JList(StrList(f.assumptions))>>,
             <<kContradictions, JList(StrList(f.contradictions))>>,
             <<kGoals, JList(StrList(f.goals))>>,
             <<kConfidence, JNum(f.confidence)>>,
             <<kHash, f.hash>> >>)

\* hashlib.sha256(b).hexdigest(): a str.  SHA-256 is taken to be collision
\* free: the digest is a marker followed by the bytes it was computed from
Sha256Hex(b) == <<"#">> \o b

stable_hash(obj) == Sha256Hex(DumpsSorted(obj))

-----------------------------------------------------------------------------
(* Drift computation                                                       *)

kTitle == <<"t", "i", "t", "l", "e">>
kFilename == <<"f", "i", "l", "e", "n", "a", "m", "e">>
kSource == <<"s", "o", "u", "r", "c", "e">>
kPayload == <<"p", "a", "y", "l", "o", "a", "d">>
kData == <<"d", "a", "t", "a">>

\* a or b
PyOr(a, b) == IF Truthy(a) THEN a ELSE b

\* ev.get("payload") or ev.get("data", {}).get("payload") or ev.get("data") or {}
\* (an event's "data", when present, is a dict)
EventPayload(ev) ==
    LET data == IF HasKey(Payload(ev), kData) THEN DictGet(Payload(ev), kData)
                ELSE JDict(<<>>)
    IN  PyOr(DictGet(Payload(ev), kPayload),
             PyOr(DictGet(Payload(data), kPayload),
                  PyOr(DictGet(Payload(ev), kData), JDict(<<>>))))

\* out after `if v and isinstance(v, str) and v not in seen: ... out.append(v)`
AddTitle(out, v) ==
    IF Truthy(v) /\ IsStr(v) /\ Payload(v) \notin Range(out)
    THEN Append(out, Payload(v)) ELSE out

\* out after the body of the loop for one event
TitlesOfEvent(out, ev) ==
    IF ~IsDict(ev) THEN out
    ELSE LET payload == EventPayload(ev)
             title == IF IsDict(payload)
                      THEN PyOr(DictGet(Payload(payload), kTitle),
                                PyOr(DictGet(Payload(payload), kFilename),
                                     DictGet(Payload(payload), kSource)))
                      ELSE JNull
             out1 == IF IsDict(payload) THEN AddTitle(out, title) ELSE out
             out2 == AddTitle(out1, DictGet(Payload(ev), kTitle))
         IN  AddTitle(out2, DictGet(Payload(ev), kFilename))

RECURSIVE DocTitlesLoop(_, _)
DocTitlesLoop(events, out) ==
    IF events = <<>> THEN out
    ELSE DocTitlesLoop(Tail(events), TitlesOfEvent(out, Head(events)))

doc_titles_from_context(ctx) == DocTitlesLoop(ctx, <<>>)

RECURSIVE DocRefs(_)
\* one {"type": "context_doc", "doc": doc} per title, held as <<type, doc>>
DocRefs(titles) ==
    IF titles = <<>> THEN <<>>
    ELSE << <<"context_doc", Head(titles)>> >> \o DocRefs(Tail(titles))

\* the references collected under `if context:`
ContextRefs(ctx) ==
    IF ctx # <<>> THEN DocRefs(doc_titles_from_context(ctx)) ELSE <<>>

RECURSIVE DistinctRefs(_, _)
DistinctRefs(cs, seen) ==
    IF cs = <<>> THEN <<>>
    ELSE LET c == Strip(Head(cs))
         IN  (IF c # <<>> /\ c \notin seen
              THEN << <<"contradiction", c>> >> ELSE <<>>)
             \o DistinctRefs(Tail(cs), seen \cup {c})

\* one reference per distinct excerpt
ContradictionRefsDistinct(cs) == DistinctRefs(cs, {})

RECURSIVE ContradictionRefs(_)
\* one {"type": "contradiction", "excerpt": c.strip()} per non-blank entry,
\* held as <<type, excerpt>>
ContradictionRefs(cs) ==
    IF cs = <<>> THEN <<>>
    ELSE (IF Strip(Head(cs)) # <<>>
          THEN << <<"contradiction", Strip(Head(cs))>> >> ELSE <<>>)
         \o ContradictionRefs(Tail(cs))

\* `not old`: the previous snapshot is None or an empty mapping
NoPrevious(prev) == ~Truthy(prev)

\* set(old.get(key) or [])   (the value, when truthy, is a list of str)
OldStrSet(prev, key) ==
    LET v == DictGet(Payload(prev), key)
    IN  IF Truthy(v) THEN {Payload(x) : x \in Range(Payload(v))} ELSE {}

\* old.get("confidence") or 1.0
OldConfidence(prev) ==
    LET v == DictGet(Payload(prev), kConfidence)
    IN  IF Truthy(v) THEN Payload(v) ELSE DefaultConfidence

\* the claims compared as lists: order and duplicates count
FactualFiresAsLists(f, prev) ==
    LET v == DictGet(Payload(prev), kClaims)
    IN  StrList(f.claims) # (IF Truthy(v) THEN Payload(v) ELSE <<>>)

FactualFires(f, prev) == Range(f.claims) # OldStrSet(prev, kClaims)

GoalFires(f, prev) == Range(f.goals) # OldStrSet(prev, kGoals)

ContradictionFires(f) == f.contradictions # <<>>

EntropyFires(f, prev) == f.confidence < OldConfidence(prev)

\* whether `new.confidence < (old.get("confidence") or 1.0)` can be evaluated:
\* a float compares with a number, and with nothing else (TypeError)
ConfidenceComparable(prev) ==
    LET v == DictGet(Payload(prev), kConfidence)
    IN  ~Truthy(v) \/ Tag(v) = "num"

\* drift_types after the four `if` statements
DriftTypes(f, prev) ==
    (IF FactualFires(f, prev) THEN <<"factual">> ELSE <<>>)
    \o (IF GoalFires(f, prev) THEN <<"goal">> ELSE <<>>)
    \o (IF ContradictionFires(f) THEN <<"contradiction">> ELSE <<>>)
    \o (IF EntropyFires(f, prev) THEN <<"entropy">> ELSE <<>>)

\* references after the four `if` statements
ComparativeRefs(f, ctx) ==
    ContextRefs(ctx)
    \o (IF ContradictionFires(f) THEN ContradictionRefs(f.contradictions)
        ELSE <<>>)

\* an abbreviated hash: the first eight characters only
HashOrEmptyShort(h) == IF Truthy(h) THEN Take(Payload(h), 8) ELSE <<>>

\* new.hash or ""
HashOrEmpty(h) == IF Truthy(h) THEN Payload(h) ELSE <<>>

\* the guard forgotten: level = "low" whatever drift_types holds
LevelLowUnguarded(lv, types) == "low"

\* `if drift_types: level = "low"`
LevelLow(lv, types) == IF types # <<>> THEN "low" ELSE lv

\* `elif` for `if`: high only when no other predicate has set the level
LevelHighElif(lv, types) ==
    IF lv = "none" /\ "contradiction" \in Range(types) THEN "high" ELSE lv

\* `if "contradiction" in drift_types: level = "high"`
LevelHigh(lv, types) == IF "contradiction" \in Range(types) THEN "high" ELSE lv

\* the initial snapshot classified by its contradictions
InitialDriftClassified(f, ctx) ==
    [level |-> IF f.contradictions # <<>> THEN "high" ELSE "none",
     types |-> IF f.contradictions # <<>> THEN <<"contradiction">> ELSE <<>>,
     notes |-> <<"initial snapshot">>,
     facts_hash |-> IF Truthy(f.hash) THEN Payload(f.hash) ELSE <<>>,
     references |-> IF ctx # <<>> THEN DocRefs(doc_titles_from_context(ctx))
                    ELSE <<>>]

\* the Drift returned for an initial snapshot
InitialDrift(f, ctx) ==
    [level |-> "none", types |-> <<>>, notes |-> <<"initial snapshot">>,
     facts_hash |-> HashOrEmpty(f.hash), references |-> ContextRefs(ctx)]

\* the Drift returned by a comparative call
ComparativeDrift(f, lv, types, refs) ==
    [level |-> lv, types |-> types,
     notes |-> <<"automatic structured drift detection">>,
     facts_hash |-> HashOrEmpty(f.hash), references |-> refs]

-----------------------------------------------------------------------------
(* Optional adapters: GLiNER2 NER and NLI contradiction detection          *)

\* _get_gliner() / _get_nli(): whether a handle exists after the call.  A
\* handle already constructed is reused; otherwise one is constructed when the
\* adapter is not skipped, a model id is set and loading does not raise
GetModel(loaded, skipped, loads) == loaded \/ (~skipped /\ loads)

kContent == <<"c", "o", "n", "t", "e", "n", "t">>
kExcerpt == <<"e", "x", "c", "e", "r", "p", "t">>
kBody == <<"b", "o", "d", "y">>

RECURSIVE FirstText(_, _)
\* for key in ("content", "text", "excerpt", "body"): the first non-empty str
FirstText(pairs, keys) ==
    IF keys = <<>> THEN FALSE
    ELSE LET v == DictGet(pairs, Head(keys))
         IN  (Truthy(v) /\ IsStr(v)) \/ FirstText(pairs, Tail(keys))

\* whether one event contributes to text_parts
EventHasText(ev) ==
    /\ IsDict(ev)
    /\ \/ /\ IsDict(EventPayload(ev))
          /\ FirstText(Payload(EventPayload(ev)),
                       <<kContent, kText, kExcerpt, kBody>>)
       \/ IsStr(DictGet(Payload(ev), kPayload))

\* `text_parts` is non-empty
HasText(ctx) == \E i \in DOMAIN ctx : EventHasText(ctx[i])

\* the string taken from one value of a label's list
EntityString(v) ==
    IF IsDict(v)
    THEN Strip(PyStr(IF HasKey(Payload(v), kText)
                     THEN DictGet(Payload(v), kText) ELSE v))
    ELSE Strip(PyStr(v))

RECURSIVE EntityValues(_, _)
\* the inner loop over one label's values, out being the list so far
EntityValues(vals, out) ==
    IF vals = <<>> THEN out
    ELSE LET e == EntityString(Head(vals))
         IN  EntityValues(Tail(vals),
                          IF e # <<>> /\ e \notin Range(out)
                          THEN Append(out, e) ELSE out)

RECURSIVE EntityLabels(_, _)
\* the outer loop over raw["entities"].items()
EntityLabels(pairs, out) ==
    IF pairs = <<>> THEN out
    ELSE EntityLabels(Tail(pairs),
                      EntityValues(IF IsList(Head(pairs)[2])
                                   THEN Payload(Head(pairs)[2]) ELSE <<>>,
                                   out))

\* what the backend's answer flattens to; an answer whose "entities" is not a
\* mapping raises inside the try and yields []
FlattenEntities(raw) ==
    IF IsDict(raw) /\ HasKey(Payload(raw), kEntities)
    THEN IF IsDict(DictGet(Payload(raw), kEntities))
         THEN EntityLabels(Payload(DictGet(Payload(raw), kEntities)), <<>>)
         ELSE <<>>
    ELSE <<>>

\* the failure of the backend reported as if it were an entity
extract_entities_gliner_leaky(ctx, hasModel, backend) ==
    IF ~hasModel THEN <<>>
    ELSE IF ~HasText(ctx) THEN <<>>
    ELSE IF backend.raises THEN << <<"e", "r", "r", "o", "r">> >>
    ELSE FlattenEntities(backend.raw)

\* _extract_entities_gliner(context) given whether a handle exists and what
\* the backend does: backend.raises, or backend.raw
extract_entities_gliner(ctx, hasModel, backend) ==
    IF ~hasModel THEN <<>>
    ELSE IF ~HasText(ctx) THEN <<>>
    ELSE IF backend.raises THEN <<>>
    ELSE FlattenEntities(backend.raw)

\* range(min(len(claims), 20)) and the default of max_pairs
ClaimWindow == 20
MaxPairs == 20

\* the inner loop for one i: the pairs (claims[i], claims[j]), i < j <= n
\* (1-based), blank claims skipped
RowPairs(claims, i, n) ==
    SelectSeq([k \in 1..(n - i) |-> <<claims[i], claims[i + k]>>],
              LAMBDA p : Strip(p[1]) # <<>> /\ Strip(p[2]) # <<>>)

RECURSIVE PairsFrom(_, _, _)
\* the outer loop from i on: the candidate pairs in loop order
PairsFrom(claims, i, n) ==
    IF i > n THEN <<>>
    ELSE RowPairs(claims, i, n) \o PairsFrom(claims, i + 1, n)

\* `pairs`: both loops stop once max_pairs pairs are collected
ClaimPairs(claims) ==
    LET n == IF Len(claims) < ClaimWindow THEN Len(claims) ELSE ClaimWindow
    IN  Take(PairsFrom(claims, 1, n), MaxPairs)

\* scores are held in hundredths; the threshold 0.5 is 50
NliThreshold == 50

\* whether one score row flags its pair
Flagged(sc) ==
    IF Len(sc) >= 3
    THEN sc[1] > sc[2] /\ sc[1] > sc[3] /\ sc[1] > NliThreshold
    ELSE Len(sc) >= 1 /\ sc[1] > NliThreshold

\* f"NLI: \"{a[:100]}...\" vs \"{b[:100]}...\""
NliDescription(a, b) ==
    <<"N", "L", "I", ":", SP, "\"">> \o Take(a, 100)
    \o <<".", ".", ".", "\"", SP, "v", "s", SP, "\"">> \o Take(b, 100)
    \o <<".", ".", ".", "\"">>

RECURSIVE FlaggedDescriptions(_, _, _)
FlaggedDescriptions(pairs, scores, idx) ==
    IF idx > Len(pairs) THEN <<>>
    ELSE (IF Flagged(scores[idx])
          THEN <<NliDescription(pairs[idx][1], pairs[idx][2])>> ELSE <<>>)
         \o FlaggedDescriptions(pairs, scores, idx + 1)

\* _detect_contradictions_nli(claims) given whether a handle exists and what
\* the backend does: backend.raises, or backend.scores (a row for each pair;
\* too few rows raise inside the try)
detect_contradictions_nli(claims, hasModel, backend) ==
    IF ~hasModel \/ Len(claims) < 2 THEN <<>>
    ELSE LET pairs == ClaimPairs(claims)
         IN  IF pairs = <<>> THEN <<>>
             ELSE IF backend.raises \/ Len(backend.scores) < Len(pairs)
             THEN <<>>
             ELSE FlaggedDescriptions(pairs, backend.scores, 1)

-----------------------------------------------------------------------------
(* The external calls one request makes                                    *)

\* one call of a backend and how it ended
Call(backend, outcome) == [backend |-> backend, outcome |-> outcome]

Outcome(b) == IF b.raises THEN "raised" ELSE "answered"

\* model.extract_entities(text, labels) is reached only with a handle and text
EntityCall(log, ctx, hasModel, backend) ==
    IF hasModel /\ HasText(ctx)
    THEN Append(log, Call("entity", Outcome(backend))) ELSE log

\* the call made twice: a failed attempt followed by a second one
LlmCallRetried(log, outcome) ==
    log \o <<Call("llm", "raised"), Call("llm", outcome)>>

\* facts_json_str = _call_llm(prompt_context, prompt_previous)
LlmCall(log, outcome) == Append(log, Call("llm", outcome))

\* model.predict(pairs) is reached only with a handle and at least one pair
NliCall(log, cl, hasModel, backend) ==
    IF hasModel /\ Len(cl) >= 2 /\ ClaimPairs(cl) # <<>>
    THEN Append(log, Call("contradiction", Outcome(backend))) ELSE log

-----------------------------------------------------------------------------
(* Main entry: the statements of extract_facts_and_drift                   *)

\* EXTRACTION_CONTEXT_MAX_CHARS when the environment does not set it
ContextMaxCharsDefault == 24000

\* json.loads(raw) succeeded and gave an object, so facts_dict.get works
ParsesToObject(reply) == reply.valid /\ IsDict(reply.json)

\* Facts(**facts_dict) validates: version an int, updated_at a str, confidence
\* a number, hash a str or None, each only when the key is present (the list
\* fields were just canonicalized; unknown keys are ignored).  The replies of
\* the model hold no value that pydantic would coerce (a numeric string, a
\* bool)
Validates(d) ==
    /\ HasKey(d, kVersion) => Tag(DictGet(d, kVersion)) = "num"
    /\ HasKey(d, kUpdatedAt) => IsStr(DictGet(d, kUpdatedAt))
    /\ HasKey(d, kConfidence) => Tag(DictGet(d, kConfidence)) = "num"
    /\ HasKey(d, kHash) => (IsStr(DictGet(d, kHash)) \/ IsNull(DictGet(d, kHash)))

\* the value a scalar field takes: the reply's when present, else the default
FieldOr(d, key, default) ==
    IF HasKey(d, key) THEN Payload(DictGet(d, key)) ELSE default

\* the six canonicalizations followed by Facts(**facts_dict)
BuildFacts(d) ==
    [version |-> FieldOr(d, kVersion, DefaultFacts.version),
     updated_at |-> FieldOr(d, kUpdatedAt, DefaultFacts.updated_at),
     entities |-> to_string_list(DictGet(d, kEntities)),
     claims |-> to_string_list(DictGet(d, kClaims)),
     risks |-> to_string_list(DictGet(d, kRisks)),
     assumptions |-> to_string_list(DictGet(d, kAssumptions)),
     contradictions |-> to_string_list(DictGet(d, kContradictions)),
     goals |-> to_string_list(DictGet(d, kGoals)),
     confidence |-> FieldOr(d, kConfidence, DefaultFacts.confidence),
     hash |-> IF HasKey(d, kHash) THEN DictGet(d, kHash) ELSE DefaultFacts.hash]

\* every adapter entity appended, whether or not the list already holds it
MergeEntitiesAll(entities, extra) ==
    entities \o SelectSeq(extra, LAMBDA e : e # <<>>)

RECURSIVE MergeEntities(_, _)
\* `for e in gliner_entities: if e and e not in existing: ... append(e)`
MergeEntities(entities, extra) ==
    IF extra = <<>> THEN entities
    ELSE MergeEntities(IF Head(extra) # <<>> /\ Head(extra) \notin Range(entities)
                       THEN Append(entities, Head(extra)) ELSE entities,
                       Tail(extra))

\* `if nli_contradictions: facts.contradictions = list(...) + nli_contradictions`
AppendContradictions(f, found) ==
    [f EXCEPT !.contradictions = f.contradictions \o found]

\* datetime.utcnow().isoformat() + "Z"
Timestamp(now) == now \o <<"Z">>

\* facts.updated_at = ...; facts.hash = stable_hash(facts.model_dump())
Finalized(f, now) ==
    LET stamped == [f EXCEPT !.updated_at = Timestamp(now)]
    IN  [stamped EXCEPT !.hash = JStr(stable_hash(ModelDump(stamped)))]


-----------------------------------------------------------------------------
(* Inputs                                                                  *)

sA == <<"a">>
sB == <<"b">>
sG == <<"g">>
sX == <<"x">>
sBlank == <<SP>>
sPadA == <<SP, "a">>
sBPad == <<"b", SP>>
sH1 == <<"h", "1">>
sD1 == <<"d", "1">>
sD2 == <<"d", "2">>
sD3 == <<"d", "3">>

\* strings an LLM list may hold: plain, padded, blank and empty
StrPool == {sA, sPadA, sBPad, sBlank, <<>>}

\* object elements of an LLM list
ObjPool ==
    {JDict(<< <<kClaim, JStr(sPadA)>> >>),
     JDict(<< <<kText, JStr(sB)>>, <<kClaim, JStr(sA)>> >>),
     JDict(<< <<kClaim, JStr(<<>>)>>, <<kGoal, JStr(sG)>> >>),
     JDict(<< <<sX, JNum(1)>>, <<sG, JStr(sBlank)>> >>),
     JDict(<< <<kClaim, JNum(5)>>, <<sX, JStr(sA)>> >>),
     JDict(<< <<sX, JNum(0)>> >>),
     JDict(<<>>)}

StrLists == {StrList(ss) : ss \in SeqsUpTo(StrPool, MaxItems)}

\* the shapes _to_string_list is handed: absent, scalar, flat list, list of
\* objects, mixed list, mapping of lists, mapping with nested and scalar values
CanonInputs ==
    {JNull, JStr(sPadA), JNum(7), JBool(TRUE)}
    \cup {JList(l) : l \in StrLists}
    \cup {JList(<<o>>) : o \in ObjPool}
    \cup {JList(<<JStr(sBPad), o, JNum(3)>>) : o \in ObjPool}
    \cup {JDict(<< <<sX, JList(l)>> >>) : l \in StrLists}
    \cup {JDict(<< <<sX, JList(l)>>, <<sG, JList(m)>> >>) :
             l \in StrLists, m \in StrLists}
    \cup {JDict(<< <<sX, JList(<<o, JStr(sPadA)>>)>>, <<sG, JStr(sBPad)>> >>) :
             o \in ObjPool}
    \cup {JDict(<< <<sX, JList(<<JStr(sA), o>>)>>, <<sG, JNull>> >>) :
             o \in ObjPool}

\* events: free text, a top-level title, a payload with a title, nothing
EventPool ==
    {JDict(<< <<kText, JStr(sA)>> >>),
     JDict(<< <<kTitle, JStr(sD1)>> >>),
     JDict(<< <<kPayload, JDict(<< <<kTitle, JStr(sD2)>> >>)>> >>),
     JDict(<<>>)}

Contexts == SeqsUpTo(EventPool, MaxEvents)

Budgets == (0 - 1)..MaxBudget

\* confidences in hundredths: 0.0, 0.5, 1.0
Confidences == {0, 50, DefaultConfidence}

ClaimLists == SeqsUpTo({sA, sB}, MaxItems)
GoalLists == {<<>>, <<sG>>}
ContradictionLists == {<<>>, <<<<SP>> \o sX, sBlank, sX>>, <<sBlank>>}

\* the Facts records compute_drift is handed directly (as the unit tests do)
NewFactsInputs ==
    {[DefaultFacts EXCEPT !.claims = c, !.goals = g, !.contradictions = k,
                          !.confidence = q, !.hash = h] :
        c \in ClaimLists, g \in GoalLists, k \in ContradictionLists,
        q \in Confidences, h \in {JNull, JStr(sH1)}}

\* what a previous snapshot may store under one key: nothing, null, a value
OptField(key, values) ==
    {<<>>, << <<key, JNull>> >>} \cup {<< <<key, v>> >> : v \in values}

\* previous snapshots: None, the empty mapping, and mappings holding any
\* subset of claims, goals and confidence
PreviousInputs ==
    {JNull}
    \cup {JDict(c \o g \o q) :
             c \in OptField(kClaims, {JList(StrList(l)) : l \in ClaimLists}),
             g \in OptField(kGoals, {JList(StrList(l)) : l \in GoalLists}),
             q \in OptField(kConfidence, {JNum(n) : n \in Confidences})}

\* contexts handed to compute_drift: none; three events naming documents by a
\* top-level title, by a payload title, and by a title seen before together
\* with a filename
DriftContexts ==
    {<<>>,
     <<JDict(<< <<kTitle, JStr(sD1)>> >>),
       JDict(<< <<kPayload, JDict(<< <<kTitle, JStr(sD2)>> >>)>> >>),
       JDict(<< <<kTitle, JStr(sD1)>>, <<kFilename, JStr(sD3)>> >>)>>}

sE1 == <<"e", "1">>
sE2 == <<"e", "2">>
sE1Upper == <<"E", "1">>
sT1 == <<"t", "1">>
sT2 == <<"t", "2">>

\* contexts sent to /extract: empty; free text only; two documents, the second
\* with payload content
PipeContexts ==
    {<<>>,
     <<JDict(<< <<kText, JStr(sA)>> >>)>>,
     <<JDict(<< <<kTitle, JStr(sD1)>> >>),
       JDict(<< <<kPayload, JDict(<< <<kTitle, JStr(sD2)>>,
                                     <<kContent, JStr(sA)>> >>)>> >>)>>}

\* previous_facts sent to /extract
PipePrevious ==
    {JNull,
     JDict(<<>>),
     JDict(<< <<kClaims, JList(<<JStr(sA)>>)>>, <<kGoals, JList(<<>>)>>,
              <<kConfidence, JNum(90)>> >>),
     JDict(<< <<kClaims, JList(<<JStr(sA)>>)>>,
              <<kConfidence, JStr(sX)>> >>)}

\* environments: each adapter skipped or not, the budget at its default or small
Environments ==
    [skip_gliner : BOOLEAN, skip_nli : BOOLEAN,
     max_chars : {ContextMaxCharsDefault, 45, 40}]

\* what the entity backend may do
GlinerBackends ==
    {[raises |-> TRUE, raw |-> JNull],
     [raises |-> FALSE, raw |-> JDict(<<>>)],
     [raises |-> FALSE,
      raw |-> JDict(<< <<kEntities,
                         JDict(<< <<sA, JList(<<JStr(sE1), JStr(<<SP>> \o sE1),
                                                JStr(<<>>), JStr(sE1Upper)>>)>>,
                                  <<sB, JList(<<JDict(<< <<kText, JStr(sE2)>> >>)>>)>>
                               >>)>> >>)]}

\* score rows in hundredths: contradiction, entailment, neutral
ScoreRows == {<<60, 20, 20>>, <<40, 30, 30>>, <<20, 60, 20>>, <<60>>}

\* what the contradiction backend may do: raise, or score every pair alike
NliBackends ==
    {[raises |-> TRUE, scores |-> <<>>]}
    \cup {[raises |-> FALSE, scores |-> <<r, r, r>>] : r \in ScoreRows}

Clocks == {sT1, sT2}

ReplyObject(pairs) == [valid |-> TRUE, json |-> JDict(pairs)]

\* what the LLM may answer: text that is not JSON, JSON that is not an object,
\* and objects with the expected keys, with keys missing, with other shapes
\* and with keys nobody asked for
LlmReplies ==
    {[valid |-> FALSE, json |-> JNull],
     [valid |-> TRUE, json |-> JList(<<>>)],
     ReplyObject(<<>>),
     ReplyObject(<< <<kEntities, JList(<<>>)>>,
                    <<kClaims, JList(<<JStr(sA)>>)>>,
                    <<kRisks, JList(<<>>)>>,
                    <<kAssumptions, JList(<<>>)>>,
                    <<kContradictions, JList(<<>>)>>,
                    <<kGoals, JList(<<>>)>>,
                    <<kConfidence, JNum(90)>> >>),
     ReplyObject(<< <<kClaims, JList(<<JStr(sA)>>)>>,
                    <<kConfidence, JNum(90)>>,
                    <<kHash, JStr(sH1)>> >>),
     ReplyObject(<< <<kEntities, JList(<<JStr(sE1), JStr(sE1)>>)>>,
                    <<kClaims, JList(<<JStr(sA), JStr(sB)>>)>>,
                    <<kContradictions, JList(<<JStr(sX)>>)>>,
                    <<kGoals, JList(<<JStr(sG)>>)>>,
                    <<kConfidence, JNum(50)>>,
                    <<kVersion, JNum(3)>>,
                    <<kUpdatedAt, JStr(sT1)>> >>),
     ReplyObject(<< <<kClaims, JDict(<< <<sX, JList(<<JStr(sPadA)>>)>>,
                                        <<sG, JList(<<JStr(sB)>>)>> >>)>>,
                    <<kEntities, JList(<<JDict(<< <<kEntity, JStr(sE2)>> >>)>>)>>,
                    <<kConfidence, JNum(0)>> >>),
     ReplyObject(<< <<kClaims, JList(<<JStr(sA)>>)>>,
                    <<kConfidence, JStr(sX)>> >>)}


\* one string that reads like the JSON text between two list elements
sQuoted == <<"a", "\"", ",", SP, "\"", "b">>

\* the values a hashed record may hold under each key
HashVersions == {JNum(FactsVersion), JNum(3)}
HashClaims ==
    {JList(<<>>), JList(<<JStr(sA), JStr(sB)>>), JList(<<JStr(sB), JStr(sA)>>),
     JList(<<JStr(sQuoted)>>)}
HashGoals == {JList(<<>>), JList(<<JStr(sG)>>)}
HashConfidences == {JNum(50), JNum(DefaultConfidence)}

\* the orders in which the four keys are populated
HashOrders == {<<1, 2, 3, 4>>, <<4, 3, 2, 1>>, <<2, 4, 1, 3>>}

\* the objects handed to stable_hash: the same fields, populated in any of
\* the orders
HashInputs ==
    {JDict([i \in 1..4 |->
               << <<kVersion, v>>, <<kClaims, c>>, <<kGoals, g>>,
                  <<kConfidence, q>> >>[o[i]]]) :
        v \in HashVersions, c \in HashClaims, g \in HashGoals,
        q \in HashConfidences, o \in HashOrders}

\* a list of n claims, claim k being the decimal digits of k when k is in
\* `kept` and blank otherwise
NumberedClaims(n, kept) ==
    [k \in 1..n |-> IF k \in kept THEN Digits(k) ELSE sBlank]

\* the claims handed to _detect_contradictions_nli: short lists with blank
\* entries; seven claims (21 pairs, one more than max_pairs); 22 claims whose
\* non-blank entries straddle the window of 20
NliClaimLists ==
    SeqsUpTo({sA, sB, sBlank}, 3)
    \cup {NumberedClaims(7, 1..7),
          NumberedClaims(ClaimWindow + 2, {1, ClaimWindow + 1}),
          NumberedClaims(ClaimWindow + 2,
                         {1, ClaimWindow, ClaimWindow + 1, ClaimWindow + 2})}

\* score rows of the harness: the rows of the worker, a tie, a score at the
\* threshold, and a row of two scores
NliScoreRows ==
    ScoreRows \cup {<<60, 60, 20>>, <<50, 20, 20>>, <<60, 20, 70>>, <<60, 90>>}

\* what predict may do in the harness: raise, answer too few rows, score
\* every pair alike, or flag every other pair
NliScorers ==
    {[raises |-> TRUE, scores |-> <<>>],
     [raises |-> FALSE, scores |-> << <<60, 20, 20>> >>],
     [raises |-> FALSE,
      scores |-> [k \in 1..(MaxPairs + 1) |->
                     IF k % 2 = 1 THEN <<60, 20, 20>> ELSE <<20, 60, 20>>]]}
    \cup {[raises |-> FALSE, scores |-> [k \in 1..(MaxPairs + 1) |-> r]] :
             r \in NliScoreRows}

-----------------------------------------------------------------------------
(* State                                                                   *)

\* the Drift slot before compute_drift has returned
NoDrift ==
    [level |-> "unset", types |-> <<>>, notes |-> <<>>, facts_hash |-> <<>>,
     references |-> <<>>]

CanonIdle == cpc = "idle" /\ val = JNull /\ strs = <<>>

TruncIdle == tpc = "idle" /\ context = <<>> /\ max_chars = 0 /\ limited = <<>>

DriftIdle ==
    /\ dpc = "idle" /\ new = DefaultFacts /\ old = JNull /\ dcontext = <<>>
    /\ drift_types = <<>> /\ references = <<>> /\ level = "none"
    /\ drift = NoDrift

\* the backend slot of an NLI call that has not been made
NoScorer == [raises |-> FALSE, scores |-> <<>>]

\* the threads of the worker's pool
Threads == 1..NumThreads

\* no handle stored, none constructed
NoHandles == [gliner |-> 0, nli |-> 0]

\* the response slot before /extract has answered
NoResponse == [status |-> 0, facts |-> DefaultFacts, drift |-> NoDrift]

NoRequest == [context |-> <<>>, previous_facts |-> JNull]

\* no request is being served
ReqIdle ==
    /\ busy = FALSE /\ pc = "idle" /\ req = NoRequest
    /\ context_limited = <<>> /\ gliner_entities = <<>>
    /\ facts = DefaultFacts /\ response = NoResponse /\ calls = <<>>

\* a worker that serves nothing (the single-function checks)
PipeIdle ==
    /\ env = [skip_gliner |-> TRUE, skip_nli |-> TRUE,
              max_chars |-> ContextMaxCharsDefault]
    /\ gliner_model = FALSE /\ nli_model = FALSE
    /\ ReqIdle


HashIdle ==
    /\ hpc = "idle" /\ rec_a = JNull /\ rec_b = JNull
    /\ hash_a = <<>> /\ hash_b = <<>>

NliIdle ==
    /\ npc = "idle" /\ nli_claims = <<>> /\ scorer = NoScorer
    /\ scored = <<>> /\ nli_out = <<>>

\* a thread outside the loaders
Outside == [loader |-> "none", at |-> "idle", made |-> 0]

LoadIdle ==
    /\ tpos = [t \in Threads |-> Outside]
    /\ handle = NoHandles
    /\ built = NoHandles

\* /health has not been asked
NoHealth == [asked |-> FALSE, busy |-> FALSE, in_progress |-> 0]

BusyIdle ==
    /\ serving = [t \in Threads |-> "idle"]
    /\ health = NoHealth

AuxIdle == HashIdle /\ NliIdle /\ LoadIdle /\ BusyIdle

-----------------------------------------------------------------------------
(* _to_string_list, called on its own                                      *)

ToStringListCall ==
    /\ cpc = "called"
    /\ strs' = to_string_list(val)
    /\ cpc' = "returned"
    /\ UNCHANGED <<val, truncVars, driftVars, pipeVars, auxVars>>

InitCanon ==
    /\ cpc = "called" /\ val \in CanonInputs /\ strs = <<>>
    /\ TruncIdle /\ DriftIdle /\ PipeIdle /\ AuxIdle

NextCanon == ToStringListCall

SpecCanon == InitCanon /\ [][NextCanon]_vars

-----------------------------------------------------------------------------
(* _truncate_context_for_prompt, called on its own                         *)

TruncateCall ==
    /\ tpc = "called"
    /\ limited' = truncate_context_for_prompt(context, max_chars)
    /\ tpc' = "returned"
    /\ UNCHANGED <<context, max_chars, canonVars, auxVars, driftVars, pipeVars>>

InitTrunc ==
    /\ tpc = "called" /\ context \in Contexts /\ max_chars \in Budgets
    /\ limited = <<>>
    /\ CanonIdle /\ DriftIdle /\ PipeIdle /\ AuxIdle

NextTrunc == TruncateCall

SpecTrunc == InitTrunc /\ [][NextTrunc]_vars

-----------------------------------------------------------------------------
(* stable_hash, called on two objects                                      *)

HashFirst ==
    /\ hpc = "called"
    /\ hash_a' = stable_hash(rec_a)
    /\ hpc' = "first"
    /\ UNCHANGED <<rec_a, rec_b, hash_b, nliVars, loadVars, busyVars>>
    /\ UNCHANGED <<canonVars, truncVars, driftVars, pipeVars>>

HashSecond ==
    /\ hpc = "first"
    /\ hash_b' = stable_hash(rec_b)
    /\ hpc' = "returned"
    /\ UNCHANGED <<rec_a, rec_b, hash_a, nliVars, loadVars, busyVars>>
    /\ UNCHANGED <<canonVars, truncVars, driftVars, pipeVars>>

InitHash ==
    /\ hpc = "called" /\ rec_a \in HashInputs /\ rec_b \in HashInputs
    /\ hash_a = <<>> /\ hash_b = <<>>
    /\ NliIdle /\ LoadIdle /\ BusyIdle
    /\ CanonIdle /\ TruncIdle /\ DriftIdle /\ PipeIdle

NextHash ==
    \/ HashFirst
    \/ HashSecond

SpecHash == InitHash /\ [][NextHash]_vars

-----------------------------------------------------------------------------
(* _get_gliner and _get_nli, entered by the threads that serve /extract    *)

\* SKIP_GLINER / SKIP_NLI as read by the loader
Skipped(k) == IF k = "gliner" THEN env.skip_gliner ELSE env.skip_nli

\* where a thread goes when a loader returns: from _get_gliner on to _get_nli
\* (line 394), from _get_nli out of the request
Leave(k) ==
    IF k = "gliner" THEN [loader |-> "nli", at |-> "check", made |-> 0]
    ELSE Outside

\* a thread starts serving a request and reaches _get_gliner()
LoaderEnter ==
    /\ \E t \in Threads :
          /\ tpos[t].at = "idle"
          /\ tpos' = [tpos EXCEPT
                         ![t] = [loader |-> "gliner", at |-> "check", made |-> 0]]
    /\ UNCHANGED <<handle, built, hashVars, nliVars, busyVars>>
    /\ UNCHANGED <<canonVars, truncVars, driftVars, pipeVars>>

\* `if _model is not None: return _model`, then the environment checks
LoaderCheck ==
    /\ \E t \in Threads :
          /\ tpos[t].at = "check"
          /\ tpos' = [tpos EXCEPT
                         ![t] = IF handle[tpos[t].loader] # 0
                                   \/ Skipped(tpos[t].loader)
                                THEN Leave(tpos[t].loader)
                                ELSE [@ EXCEPT !.at = "load"]]
    /\ UNCHANGED <<handle, built, hashVars, nliVars, busyVars>>
    /\ UNCHANGED <<canonVars, truncVars, driftVars, pipeVars>>

\* GLiNER2.from_pretrained(...) / CrossEncoder(...) returns a new object
LoaderConstruct ==
    /\ \E t \in Threads :
          /\ tpos[t].at = "load"
          /\ built' = [built EXCEPT ![tpos[t].loader] = @ + 1]
          /\ tpos' = [tpos EXCEPT
                         ![t] = [@ EXCEPT !.at = "store",
                                          !.made = built'[tpos[t].loader]]]
    /\ UNCHANGED <<handle, hashVars, nliVars, busyVars>>
    /\ UNCHANGED <<canonVars, truncVars, driftVars, pipeVars>>

\* the import or the constructor raises: `except Exception: return None`
LoaderRaises ==
    /\ \E t \in Threads :
          /\ tpos[t].at = "load"
          /\ tpos' = [tpos EXCEPT ![t] = Leave(tpos[t].loader)]
    /\ UNCHANGED <<handle, built, hashVars, nliVars, busyVars>>
    /\ UNCHANGED <<canonVars, truncVars, driftVars, pipeVars>>

\* the assignment to the global, then `return _model`
LoaderStore ==
    /\ \E t \in Threads :
          /\ tpos[t].at = "store"
          /\ handle' = [handle EXCEPT ![tpos[t].loader] = tpos[t].made]
          /\ tpos' = [tpos EXCEPT ![t] = Leave(tpos[t].loader)]
    /\ UNCHANGED <<built, hashVars, nliVars, busyVars>>
    /\ UNCHANGED <<canonVars, truncVars, driftVars, pipeVars>>

InitLoad ==
    /\ env \in Environments
    /\ gliner_model = FALSE /\ nli_model = FALSE
    /\ ReqIdle
    /\ LoadIdle /\ HashIdle /\ NliIdle /\ BusyIdle
    /\ CanonIdle /\ TruncIdle /\ DriftIdle

NextLoad ==
    \/ LoaderEnter
    \/ LoaderCheck
    \/ LoaderConstruct
    \/ LoaderRaises
    \/ LoaderStore

SpecLoad == InitLoad /\ [][NextLoad]_vars

-----------------------------------------------------------------------------
(* _detect_contradictions_nli, called on its own with a handle loaded      *)

\* the two loops that collect `pairs`
NliCollect ==
    /\ npc = "called"
    /\ scored' = IF Len(nli_claims) < 2 THEN <<>> ELSE ClaimPairs(nli_claims)
    /\ npc' = "paired"
    /\ UNCHANGED <<nli_claims, scorer, nli_out, hashVars, loadVars,
                   busyVars>>
    /\ UNCHANGED <<canonVars, truncVars, driftVars, pipeVars>>

\* predict and the loop over its scores, up to the return
NliScore ==
    /\ npc = "paired"
    /\ nli_out' = detect_contradictions_nli(nli_claims, TRUE, scorer)
    /\ npc' = "returned"
    /\ UNCHANGED <<nli_claims, scorer, scored, hashVars, loadVars,
                   busyVars>>
    /\ UNCHANGED <<canonVars, truncVars, driftVars, pipeVars>>

InitNli ==
    /\ npc = "called"
    /\ nli_claims \in NliClaimLists
    /\ scorer \in NliScorers
    /\ scored = <<>> /\ nli_out = <<>>
    /\ HashIdle /\ LoadIdle /\ BusyIdle
    /\ CanonIdle /\ TruncIdle /\ DriftIdle /\ PipeIdle

NextNli ==
    \/ NliCollect
    \/ NliScore

SpecNli == InitNli /\ [][NextNli]_vars

-----------------------------------------------------------------------------
(* extract() and health(), served by the threads of the pool               *)

\* the request fields of the pipeline, which the threads here do not touch
RequestFrame == <<pc, req, context_limited, gliner_entities, facts, response,
                  calls>>

\* the extractions between `_busy = True` and the `finally`
InProgress == {t \in Threads : serving[t] = "working"}

\* POST /extract is dispatched to a thread, which enters extract()
ExtractEnter ==
    /\ \E t \in Threads :
          /\ serving[t] = "idle"
          /\ serving' = [serving EXCEPT ![t] = "entered"]
    /\ UNCHANGED <<busy, health, RequestFrame, procVars>>
    /\ UNCHANGED <<canonVars, truncVars, driftVars, hashVars, nliVars, loadVars>>

\* `_busy = True`, then the try block is entered
ExtractSetBusy ==
    /\ \E t \in Threads :
          /\ serving[t] = "entered"
          /\ serving' = [serving EXCEPT ![t] = "working"]
    /\ busy' = TRUE
    /\ UNCHANGED <<health, RequestFrame, procVars>>
    /\ UNCHANGED <<canonVars, truncVars, driftVars, hashVars, nliVars, loadVars>>

\* extract_facts_and_drift returns: the answer is {"facts", "drift"}
ExtractReturns ==
    /\ \E t \in Threads :
          /\ serving[t] = "working"
          /\ serving' = [serving EXCEPT ![t] = "answer_200"]
    /\ UNCHANGED <<busy, health, RequestFrame, procVars>>
    /\ UNCHANGED <<canonVars, truncVars, driftVars, hashVars, nliVars, loadVars>>

\* extract_facts_and_drift raises: the answer is the 500
ExtractRaises ==
    /\ \E t \in Threads :
          /\ serving[t] = "working"
          /\ serving' = [serving EXCEPT ![t] = "answer_500"]
    /\ UNCHANGED <<busy, health, RequestFrame, procVars>>
    /\ UNCHANGED <<canonVars, truncVars, driftVars, hashVars, nliVars, loadVars>>

\* `finally: _busy = False`, on either way out
ExtractFinally ==
    /\ \E t \in Threads :
          /\ serving[t] \in {"answer_200", "answer_500"}
          /\ serving' = [serving EXCEPT ![t] = "idle"]
    /\ busy' = FALSE
    /\ UNCHANGED <<health, RequestFrame, procVars>>
    /\ UNCHANGED <<canonVars, truncVars, driftVars, hashVars, nliVars, loadVars>>

\* GET /health answers "busy": _busy
Health ==
    /\ health' = [asked |-> TRUE, busy |-> busy,
                  in_progress |-> Cardinality(InProgress)]
    /\ UNCHANGED <<busy, serving, RequestFrame, procVars>>
    /\ UNCHANGED <<canonVars, truncVars, driftVars, hashVars, nliVars, loadVars>>

InitBusy ==
    /\ BusyIdle
    /\ HashIdle /\ NliIdle /\ LoadIdle
    /\ CanonIdle /\ TruncIdle /\ DriftIdle /\ PipeIdle

NextBusy ==
    \/ ExtractEnter
    \/ ExtractSetBusy
    \/ ExtractReturns
    \/ ExtractRaises
    \/ ExtractFinally
    \/ Health

SpecBusy == InitBusy /\ [][NextBusy]_vars

-----------------------------------------------------------------------------
(* compute_drift, statement by statement                                   *)

\* `if not old:` taken: the initial snapshot is returned at once
DriftInitial ==
    /\ dpc = "entered"
    /\ NoPrevious(old)
    /\ drift' = InitialDrift(new, dcontext)
    /\ dpc' = "returned"
    /\ UNCHANGED <<new, old, dcontext, drift_types, references, level>>
    /\ UNCHANGED <<canonVars, auxVars, truncVars, pipeVars>>

\* the four predicates, then `level = "none"`
DriftPredicates ==
    /\ dpc = "entered"
    /\ ~NoPrevious(old)
    /\ ConfidenceComparable(old)
    /\ drift_types' = DriftTypes(new, old)
    /\ references' = ComparativeRefs(new, dcontext)
    /\ level' = "none"
    /\ dpc' = "level_low"
    /\ UNCHANGED <<new, old, dcontext, drift>>
    /\ UNCHANGED <<canonVars, auxVars, truncVars, pipeVars>>

DriftLevelLow ==
    /\ dpc = "level_low"
    /\ level' = LevelLow(level, drift_types)
    /\ dpc' = "level_high"
    /\ UNCHANGED <<new, old, dcontext, drift_types, references, drift>>
    /\ UNCHANGED <<canonVars, auxVars, truncVars, pipeVars>>

DriftLevelHigh ==
    /\ dpc = "level_high"
    /\ level' = LevelHigh(level, drift_types)
    /\ dpc' = "return"
    /\ UNCHANGED <<new, old, dcontext, drift_types, references, drift>>
    /\ UNCHANGED <<canonVars, auxVars, truncVars, pipeVars>>

DriftReturn ==
    /\ dpc = "return"
    /\ drift' = ComparativeDrift(new, level, drift_types, references)
    /\ dpc' = "returned"
    /\ UNCHANGED <<new, old, dcontext, drift_types, references, level>>
    /\ UNCHANGED <<canonVars, auxVars, truncVars, pipeVars>>

InitDrift ==
    /\ dpc = "entered"
    /\ new \in NewFactsInputs /\ old \in PreviousInputs
    /\ dcontext \in DriftContexts
    /\ drift_types = <<>> /\ references = <<>> /\ level = "none"
    /\ drift = NoDrift
    /\ CanonIdle /\ TruncIdle /\ PipeIdle /\ AuxIdle

NextDrift ==
    \/ DriftInitial
    \/ DriftPredicates
    \/ DriftLevelLow
    \/ DriftLevelHigh
    \/ DriftReturn

SpecDrift == InitDrift /\ [][NextDrift]_vars

-----------------------------------------------------------------------------
(* The worker: POST /extract served by extract_facts_and_drift             *)

DriftFrameIdle ==
    /\ dpc' = "idle" /\ new' = DefaultFacts /\ old' = JNull /\ dcontext' = <<>>
    /\ drift_types' = <<>> /\ references' = <<>> /\ level' = "none"
    /\ drift' = NoDrift

\* a 500 that also carries the record built so far
FailsWithFacts ==
    /\ response' = [NoResponse EXCEPT !.status = 500, !.facts = facts]
    /\ busy' = FALSE
    /\ pc' = "done"

\* `except Exception` and `finally` of extract(): a 500 carrying the error only
Fails ==
    /\ response' = [NoResponse EXCEPT !.status = 500]
    /\ busy' = FALSE
    /\ pc' = "done"

\* extract() sets _busy and calls extract_facts_and_drift, which truncates
Request ==
    /\ pc = "idle"
    /\ \E c \in PipeContexts, p \in PipePrevious :
          /\ req' = [context |-> c, previous_facts |-> p]
          /\ context_limited' = truncate_context_for_prompt(c, env.max_chars)
    /\ busy' = TRUE
    /\ pc' = "ner"
    /\ UNCHANGED <<gliner_entities, facts, response, calls>>
    /\ UNCHANGED <<procVars, canonVars, auxVars, truncVars, driftVars>>

\* gliner_entities = _extract_entities_gliner(context_limited)
EntityPass ==
    /\ pc = "ner"
    /\ \E loads \in BOOLEAN, backend \in GlinerBackends :
          /\ gliner_model' = GetModel(gliner_model, env.skip_gliner, loads)
          /\ gliner_entities' =
                 extract_entities_gliner(context_limited, gliner_model', backend)
          /\ calls' = EntityCall(calls, context_limited, gliner_model', backend)
    /\ pc' = "llm"
    /\ UNCHANGED <<env, nli_model, busy, req, context_limited, facts, response>>
    /\ UNCHANGED <<canonVars, auxVars, truncVars, driftVars>>

\* _call_llm raises (unreachable, timeout): the error leaves the function
LlmFails ==
    /\ pc = "llm"
    /\ calls' = LlmCall(calls, "raised")
    /\ Fails
    /\ UNCHANGED <<req, context_limited, gliner_entities, facts>>
    /\ UNCHANGED <<procVars, canonVars, auxVars, truncVars, driftVars>>

\* _call_llm returns; the text is parsed, canonicalized and validated
LlmReplied ==
    /\ pc = "llm"
    /\ \E reply \in LlmReplies :
          IF ParsesToObject(reply) /\ Validates(Payload(reply.json))
          THEN /\ facts' = BuildFacts(Payload(reply.json))
               /\ pc' = "merge"
               /\ UNCHANGED <<busy, response>>
          ELSE /\ Fails
               /\ UNCHANGED facts
    /\ calls' = LlmCall(calls, "answered")
    /\ UNCHANGED <<req, context_limited, gliner_entities>>
    /\ UNCHANGED <<procVars, canonVars, auxVars, truncVars, driftVars>>

\* `if gliner_entities:` the merge into facts.entities
EntityMerge ==
    /\ pc = "merge"
    /\ facts' = [facts EXCEPT
                    !.entities = MergeEntities(facts.entities, gliner_entities)]
    /\ pc' = "nli"
    /\ UNCHANGED <<busy, req, context_limited, gliner_entities, response,
                   calls>>
    /\ UNCHANGED <<procVars, canonVars, auxVars, truncVars, driftVars>>

\* nli_contradictions = _detect_contradictions_nli(facts.claims or [])
ContradictionPass ==
    /\ pc = "nli"
    /\ \E loads \in BOOLEAN, backend \in NliBackends :
          /\ nli_model' = GetModel(nli_model, env.skip_nli, loads)
          /\ facts' = AppendContradictions(
                          facts,
                          detect_contradictions_nli(facts.claims, nli_model',
                                                    backend))
          /\ calls' = NliCall(calls, facts.claims, nli_model', backend)
    /\ pc' = "stamp"
    /\ UNCHANGED <<env, gliner_model, busy, req, context_limited,
                   gliner_entities, response>>
    /\ UNCHANGED <<canonVars, auxVars, truncVars, driftVars>>

\* updated_at and hash are set, then compute_drift(facts, previous_facts,
\* context) is entered
Finalize ==
    /\ pc = "stamp"
    /\ \E now \in Clocks : facts' = Finalized(facts, now)
    /\ new' = facts'
    /\ old' = req.previous_facts
    /\ dcontext' = req.context
    /\ dpc' = "entered"
    /\ pc' = "drift"
    /\ UNCHANGED <<drift_types, references, level, drift>>
    /\ UNCHANGED <<busy, req, context_limited, gliner_entities, response,
                   calls>>
    /\ UNCHANGED <<procVars, canonVars, auxVars, truncVars>>

\* compute_drift raises on a stored confidence that is not a number; the
\* error leaves extract_facts_and_drift with facts already built
DriftFails ==
    /\ pc = "drift"
    /\ dpc = "entered"
    /\ ~NoPrevious(old)
    /\ ~ConfidenceComparable(old)
    /\ Fails
    /\ DriftFrameIdle
    /\ UNCHANGED <<req, context_limited, gliner_entities, facts, calls>>
    /\ UNCHANGED <<procVars, canonVars, auxVars, truncVars>>

\* return facts.model_dump(), drift.model_dump(); extract() answers
\* {"facts": ..., "drift": ...} and clears _busy
Respond ==
    /\ pc = "drift"
    /\ dpc = "returned"
    /\ response' = [status |-> 200, facts |-> facts, drift |-> drift]
    /\ busy' = FALSE
    /\ pc' = "done"
    /\ DriftFrameIdle
    /\ UNCHANGED <<req, context_limited, gliner_entities, facts, calls>>
    /\ UNCHANGED <<procVars, canonVars, auxVars, truncVars>>

\* the request is over; the worker waits for the next one
NextRequest ==
    /\ pc = "done"
    /\ pc' = "idle"
    /\ req' = NoRequest
    /\ context_limited' = <<>>
    /\ gliner_entities' = <<>>
    /\ facts' = DefaultFacts
    /\ response' = NoResponse
    /\ calls' = <<>>
    /\ UNCHANGED busy
    /\ UNCHANGED <<procVars, canonVars, auxVars, truncVars, driftVars>>

Init ==
    /\ env \in Environments
    /\ gliner_model = FALSE /\ nli_model = FALSE
    /\ ReqIdle
    /\ CanonIdle /\ TruncIdle /\ DriftIdle /\ AuxIdle

Next ==
    \/ Request
    \/ EntityPass
    \/ LlmFails
    \/ LlmReplied
    \/ EntityMerge
    \/ ContradictionPass
    \/ Finalize
    \/ DriftInitial
    \/ DriftPredicates
    \/ DriftLevelLow
    \/ DriftLevelHigh
    \/ DriftReturn
    \/ DriftFails
    \/ Respond
    \/ NextRequest

Spec == Init /\ [][Next]_vars


-----------------------------------------------------------------------------
(* Properties of compute_drift (checked under SpecDrift)                   *)

Returned == dpc = "returned"
Comparative == ~NoPrevious(old)
TypeSet == Range(drift.types)

\* C2 as stated: whenever the new record's contradictions list is non-empty,
\* compute_drift returns level "high", whatever the other predicates are.
C2_ContradictionsAlwaysHigh ==
    (Returned /\ new.contradictions # <<>>) => drift.level = "high"

\* C2 amended: on a call whose previous snapshot is neither None nor an empty
\* mapping, a non-empty contradictions list gives level "high" whatever the
\* factual, goal and entropy predicates are; with no previous snapshot the
\* level is "none".
C2_ContradictionsHighWhenComparative ==
    (Returned /\ new.contradictions # <<>>) =>
        drift.level = (IF Comparative THEN "high" ELSE "none")

C2_Witness ==
    /\ Returned /\ Comparative /\ new.contradictions # <<>>
    /\ drift.types = <<"factual", "goal", "contradiction", "entropy">>
    /\ drift.level = "high"

\* C3: with previous_facts None, compute_drift returns level "none", an empty
\* types list and notes containing "initial snapshot", whatever the new record
\* holds.
C3_InitialSnapshot ==
    (Returned /\ old = JNull) =>
        /\ drift.level = "none"
        /\ drift.types = <<>>
        /\ "initial snapshot" \in Range(drift.notes)

C3_Witness ==
    /\ Returned /\ old = JNull
    /\ new.contradictions # <<>> /\ new.claims # <<>> /\ new.goals # <<>>
    /\ new.confidence < DefaultConfidence
    /\ drift.level = "none"

LevelRank(lv) == CASE lv = "none" -> 0 [] lv = "low" -> 1 [] lv = "high" -> 2

C4_Shape ==
    (Returned /\ Comparative) =>
        /\ TypeSet \subseteq {"factual", "goal", "contradiction", "entropy"}
        /\ Cardinality(TypeSet) = Len(drift.types)
        /\ (drift.level = "none") <=> (drift.types = <<>>)
        /\ (drift.level = "high") <=> ("contradiction" \in TypeSet)
        /\ (drift.level = "low") <=>
               (drift.types # <<>> /\ "contradiction" \notin TypeSet)

\* C4: on a comparative call types holds each of factual, goal, contradiction,
\* entropy at most once, level is "none" iff types is empty, "high" iff types
\* holds "contradiction", "low" otherwise, and during the computation level is
\* only ever raised.
C4_LevelFromTypes ==
    /\ []C4_Shape
    /\ [][LevelRank(level') >= LevelRank(level)]_vars

C4_Witness ==
    /\ Returned /\ Comparative
    /\ drift.types = <<"goal", "contradiction">>
    /\ drift.level = "high"

\* what the claims call the set of old strings under a key: the strings of the
\* stored list, the empty set when the key is missing or null
StoredSet(prev, key) ==
    IF HasKey(Payload(prev), key) /\ IsList(DictGet(Payload(prev), key))
    THEN {Payload(x) : x \in Range(Payload(DictGet(Payload(prev), key)))}
    ELSE {}

SetPredicatesAgree ==
    /\ ("factual" \in TypeSet) <=> (Range(new.claims) # StoredSet(old, kClaims))
    /\ ("goal" \in TypeSet) <=> (Range(new.goals) # StoredSet(old, kGoals))

\* C5 as stated: for every previous snapshot that is a mapping, "factual" is in
\* types exactly when the set of new claims differs from the set of old claims,
\* and "goal" exactly when the sets of goals differ.
C5_SetPredicatesForEveryMapping ==
    (Returned /\ IsDict(old)) => SetPredicatesAgree

\* C5 amended: the same for every previous snapshot that is a non-empty
\* mapping (an empty mapping is treated as no previous snapshot: types is
\* empty whatever the new claims and goals are).
C5_SetPredicatesForNonEmptyMapping ==
    /\ (Returned /\ IsDict(old) /\ Payload(old) # <<>>) => SetPredicatesAgree
    /\ (Returned /\ old = JDict(<<>>)) => drift.types = <<>>

C5_Witness ==
    /\ Returned /\ IsDict(old)
    /\ ~HasKey(Payload(old), kClaims) /\ HasKey(Payload(old), kGoals)
    /\ new.claims = <<sB, sA>>
    /\ "factual" \in TypeSet /\ "goal" \notin TypeSet

\* the old confidence of the claims: the stored number, 1.0 when the field is
\* missing (or null)
StoredConfidence(prev) ==
    IF HasKey(Payload(prev), kConfidence)
       /\ Tag(DictGet(Payload(prev), kConfidence)) = "num"
    THEN Payload(DictGet(Payload(prev), kConfidence))
    ELSE DefaultConfidence

\* C6: on a comparative call "entropy" is in types exactly when the new
\* confidence is strictly less than the old confidence, 1.0 standing in only
\* for a missing field, for every old confidence including 0.
C6_EntropyIffConfidenceDropped ==
    (Returned /\ Comparative) =>
        (("entropy" \in TypeSet) <=> (new.confidence < StoredConfidence(old)))

-----------------------------------------------------------------------------
(* Properties of _truncate_context_for_prompt (checked under SpecTrunc)    *)

Truncated == tpc = "returned"

\* the last k events of ctx
Suffix(ctx, k) == SubSeq(ctx, Len(ctx) - k + 1, Len(ctx))

LastAloneExceeds == SerLen(<<context[Len(context)]>>) > max_chars

\* C7: for a non-empty event list the truncator returns a non-empty list, and
\* the serialization of what it returns exceeds the budget only if the single
\* most recent event alone exceeds it.
C7_NonEmptyAndWithinBudget ==
    (Truncated /\ context # <<>>) =>
        /\ limited # <<>>
        /\ SerLen(limited) <= max_chars \/ LastAloneExceeds

C7_Witness ==
    /\ Truncated /\ Len(context) = MaxEvents /\ Len(limited) = 2
    /\ SerLen(context) > max_chars
    /\ SerLen(limited) <= max_chars

\* the suffix lengths whose serialization fits the budget
FittingLengths == {k \in 1..Len(context) : SerLen(Suffix(context, k)) <= max_chars}

\* C8: the result is the input unchanged when the budget is <= 0 or everything
\* fits; otherwise the longest suffix that fits; and when not even the most
\* recent event fits, exactly that most recent event.
C8_LongestFittingSuffix ==
    (Truncated /\ context # <<>>) =>
        limited =
            IF max_chars <= 0 \/ SerLen(context) <= max_chars THEN context
            ELSE IF FittingLengths # {}
                 THEN Suffix(context,
                             CHOOSE k \in FittingLengths :
                                 \A j \in FittingLengths : j <= k)
                 ELSE <<context[Len(context)]>>

-----------------------------------------------------------------------------
(* Properties of _to_string_list (checked under SpecCanon)                 *)

Canonicalized == cpc = "returned"

RECURSIVE AllStrLists(_)
\* every value of the mapping is a list of str
AllStrLists(pairs) ==
    IF pairs = <<>> THEN TRUE
    ELSE /\ IsList(Head(pairs)[2])
         /\ \A i \in DOMAIN Payload(Head(pairs)[2]) :
                IsStr(Payload(Head(pairs)[2])[i])
         /\ AllStrLists(Tail(pairs))

RECURSIVE FlatItems(_)
\* the flat list holding the same strings as a mapping of lists
FlatItems(pairs) ==
    IF pairs = <<>> THEN <<>>
    ELSE Payload(Head(pairs)[2]) \o FlatItems(Tail(pairs))

\* C9: a mapping of lists and the flat list of the same strings normalize to
\* the same set of strings, padded strings included.
C9_MappingAndFlatListAgree ==
    (Canonicalized /\ IsDict(val) /\ AllStrLists(Payload(val))) =>
        Range(strs) = Range(to_string_list(JList(FlatItems(Payload(val)))))

-----------------------------------------------------------------------------
(* Properties of extract_facts_and_drift (checked under Spec)              *)

Answered == pc = "done" /\ response.status = 200

\* C1: every successful extraction returns Facts with a non-null hash and a
\* Drift whose facts_hash equals that hash.
C1_DriftCarriesFactsHash ==
    Answered =>
        /\ response.facts.hash # JNull
        /\ response.facts.hash = JStr(response.drift.facts_hash)

C1_Witness ==
    /\ Answered
    /\ Truthy(req.previous_facts)
    /\ context_limited # req.context
    /\ Len(response.facts.contradictions) = 2
    /\ sE2 \in Range(response.facts.entities)
    /\ response.drift.level = "high"

\* the returned record without its hash field
DumpWithoutHash(f) ==
    JDict(SelectSeq(Payload(ModelDump(f)), LAMBDA pair : pair[1] # kHash))

\* C10: the hash of every returned Facts record is the digest of that record
\* taken over all of its fields except hash (read generously: with the hash
\* field left out, or with the hash field still null).
C10_HashIsDigestOfReturnedRecord ==
    Answered =>
        \/ response.facts.hash = JStr(stable_hash(DumpWithoutHash(response.facts)))
        \/ response.facts.hash =
               JStr(stable_hash(ModelDump([response.facts EXCEPT !.hash = JNull])))

-----------------------------------------------------------------------------
(* Properties of stable_hash (checked under SpecHash)                      *)

Hashed == hpc = "returned"

HashKeys == <<kVersion, kClaims, kGoals, kConfidence>>

\* the two objects hold the same value under every key
SameFields ==
    \A i \in DOMAIN HashKeys :
        DictGet(Payload(rec_a), HashKeys[i]) = DictGet(Payload(rec_b), HashKeys[i])

\* C11: stable_hash is deterministic and insensitive to the order in which
\* the keys were populated: two records with the same field values get the
\* same hash, and two records that differ in a list field, in confidence or
\* in version get different hashes.
C11_HashFollowsFieldValues ==
    Hashed => (SameFields <=> hash_a = hash_b)

\* two records populated in different orders were hashed alike, and the run
\* also hashes records whose lists differ only by where a quote falls
C11_Witness ==
    /\ Hashed
    /\ rec_a # rec_b
    /\ SameFields
    /\ hash_a = hash_b
    /\ DictGet(Payload(rec_a), kClaims) = JList(<<JStr(sQuoted)>>)

-----------------------------------------------------------------------------
(* Properties of the worker (checked under Spec)                           *)

\* C12: every Facts record returned by extract_facts_and_drift has version
\* 2, whatever keys and values the object answered by the LLM holds.
C12_ReturnedVersionIsTwo ==
    Answered => response.facts.version = FactsVersion

Failed == pc = "done" /\ response.status = 500

\* a complete pair: the record stamped and hashed, the drift classified
CompletePair ==
    /\ response.facts = facts
    /\ response.facts.hash # JNull
    /\ response.facts.updated_at # <<>>
    /\ response.drift.level \in {"none", "low", "high"}
    /\ response.drift.notes # <<>>

\* C13: a request ends in one of two ways: /extract answers a complete
\* (Facts, Drift) pair, or it answers a 500 that carries no Facts and no
\* Drift; nothing is answered before the end, and a failure of the LLM call,
\* of parsing, of validation or of any later step never yields part of a
\* pair.
C13_CompletePairOrErrorOnly ==
    /\ pc = "done" => response.status \in {200, 500}
    /\ Answered => CompletePair
    /\ Failed => response.facts = DefaultFacts /\ response.drift = NoDrift
    /\ pc # "done" => response = NoResponse

\* a request failed after its record had been built, stamped and hashed
C13_Witness ==
    /\ Failed
    /\ facts.hash # JNull
    /\ facts.claims # <<>>

Rank(backend) ==
    CASE backend = "entity" -> 1
      [] backend = "llm" -> 2
      [] backend = "contradiction" -> 3

CallsOf(backend) == {i \in DOMAIN calls : calls[i].backend = backend}

\* C14: within one request the LLM is called exactly once and never again,
\* the entity backend and the contradiction backend at most once each, in
\* the order entity, LLM, contradiction; after a failed LLM call no backend
\* is called.
C14_EachBackendOnceInOrder ==
    /\ \A i, j \in DOMAIN calls :
           i < j => Rank(calls[i].backend) < Rank(calls[j].backend)
    /\ pc \in {"idle", "ner", "llm"} => CallsOf("llm") = {}
    /\ pc \in {"merge", "nli", "stamp", "drift", "done"} =>
           Cardinality(CallsOf("llm")) = 1
    /\ \A i \in CallsOf("llm") :
           calls[i].outcome = "raised" => i = Len(calls) /\ Failed

\* a request that called all three backends, and answered
C14_Witness ==
    /\ Answered
    /\ Len(calls) = 3
    /\ calls[1].backend = "entity"
    /\ calls[3].backend = "contradiction"

-----------------------------------------------------------------------------
(* Properties of the lazy loaders (checked under SpecLoad)                 *)

\* C15: under any interleaving of concurrent requests each lazily
\* initialized handle (_gliner_model, _nli_model) is constructed at most
\* once per process: two requests that enter _get_gliner or _get_nli
\* together never both construct a handle.
C15_HandleConstructedAtMostOnce ==
    built.gliner <= 1 /\ built.nli <= 1

-----------------------------------------------------------------------------
(* Properties of the optional adapters inside the worker (under Spec)      *)

\* the backend was not called (no handle, adapter skipped, nothing to send)
\* or its call raised
AbsentOrFailed(backend) ==
    \A i \in CallsOf(backend) : calls[i].outcome = "raised"

PastEntityPass == pc \in {"llm", "merge", "nli", "stamp", "drift", "done"}

\* C16: a missing, disabled or failing entity or contradiction backend never
\* makes an extraction fail: the adapter yields the empty sequence, the
\* request goes on, and the record is the one built without that adapter.
C16_AdapterFailureContributesNothing ==
    /\ [](PastEntityPass /\ AbsentOrFailed("entity") => gliner_entities = <<>>)
    /\ [][pc = "ner" => pc' = "llm" /\ response' = NoResponse]_vars
    /\ [][pc = "merge" /\ gliner_entities = <<>> =>
              facts' = facts /\ pc' = "nli" /\ response' = NoResponse]_vars
    /\ [][pc = "nli" /\ AbsentOrFailed("contradiction")' =>
              facts' = facts /\ pc' = "stamp" /\ response' = NoResponse]_vars

\* both backends were called, both raised, and the request answered its pair
C16_Witness ==
    /\ Answered
    /\ Len(calls) = 3
    /\ calls[1] = Call("entity", "raised")
    /\ calls[3] = Call("contradiction", "raised")
    /\ response.facts.claims # <<>>

\* the position at which a string first occurs in a list
FirstAt(list, e) == CHOOSE i \in DOMAIN list : list[i] = e /\ \A j \in 1..(i - 1) : list[j] # e

\* `merged` is `base` followed by the entries of `extra` that are non-empty
\* and not in `base`, each once, in the order in which `extra` first has them
MergedFrom(merged, base, extra) ==
    LET n == Len(base)
        added == SubSeq(merged, n + 1, Len(merged))
    IN  /\ Len(merged) >= n
        /\ SubSeq(merged, 1, n) = base
        /\ Range(added) = {e \in Range(extra) : e # <<>> /\ e \notin Range(base)}
        /\ Cardinality(Range(added)) = Len(added)
        /\ \A a, b \in DOMAIN added :
               a < b => FirstAt(extra, added[a]) < FirstAt(extra, added[b])

\* C17: after the entity merge the entities list is the LLM-derived entities
\* in their original order, followed by the adapter's entities in first-seen
\* order, an adapter entity being added only if it is non-empty and not yet
\* in the list by exact, case-sensitive match, and never twice.
C17_MergeAppendsNewEntitiesOnce ==
    [][pc = "merge" =>
          MergedFrom(facts'.entities, facts.entities, gliner_entities)]_vars

\* the merge has run on LLM entities [e1, e1] and adapter entities
\* [e1, E1, e2]: e1 is suppressed, E1 and e2 are appended
C17_Witness ==
    /\ pc = "nli"
    /\ gliner_entities = <<sE1, sE1Upper, sE2>>
    /\ facts.entities = <<sE1, sE1, sE1Upper, sE2>>

-----------------------------------------------------------------------------
(* The references of compute_drift (checked under SpecDrift)               *)

\* the titles one event names, in the order the code looks for them: the
\* payload's title (or filename, or source), the event's title, its filename
EventTitles(ev) ==
    LET payload == EventPayload(ev)
        fromPayload ==
            IF IsDict(payload)
            THEN <<PyOr(DictGet(Payload(payload), kTitle),
                        PyOr(DictGet(Payload(payload), kFilename),
                             DictGet(Payload(payload), kSource)))>>
            ELSE <<>>
        named == fromPayload \o <<DictGet(Payload(ev), kTitle),
                                  DictGet(Payload(ev), kFilename)>>
        strings == SelectSeq(named, LAMBDA v : IsStr(v))
    IN  [i \in DOMAIN strings |-> Payload(strings[i])]

RECURSIVE TitlesFound(_)
\* every title found in the context, repetitions included
TitlesFound(ctx) ==
    IF ctx = <<>> THEN <<>>
    ELSE EventTitles(Head(ctx)) \o TitlesFound(Tail(ctx))

RefsOfType(refs, type) == SelectSeq(refs, LAMBDA r : r[1] = type)

Texts(refs) == [i \in DOMAIN refs |-> refs[i][2]]

\* the trimmed text of every non-blank entry, in order
TrimmedNonBlank(cs) ==
    SelectSeq([i \in DOMAIN cs |-> Strip(cs[i])], LAMBDA c : c # <<>>)

\* C18: the references returned by compute_drift are one context_doc entry
\* per distinct document title found in the context, in first-seen order, on
\* initial and comparative calls alike, followed on comparative calls only
\* by one contradiction entry carrying the trimmed text of every non-blank
\* entry of the new record's contradictions, in order and without
\* deduplication; an initial snapshot yields no contradiction entry.
C18_ReferencesDocsThenContradictions ==
    Returned =>
        LET refs == drift.references
            docs == RefsOfType(refs, "context_doc")
            cons == RefsOfType(refs, "contradiction")
        IN  /\ refs = docs \o cons
            /\ MergedFrom(Texts(docs), <<>>, TitlesFound(dcontext))
            /\ Texts(cons) = IF Comparative
                             THEN TrimmedNonBlank(new.contradictions)
                             ELSE <<>>

\* a comparative call returned three documents (one title met twice) and two
\* contradiction entries with the same trimmed text
C18_Witness ==
    /\ Returned
    /\ Comparative
    /\ drift.references =
           << <<"context_doc", sD1>>, <<"context_doc", sD2>>,
              <<"context_doc", sD3>>, <<"contradiction", sX>>,
              <<"contradiction", sX>> >>

\* an initial snapshot whose record holds contradictions returned documents
\* only
C18_InitialWitness ==
    /\ Returned
    /\ ~Comparative
    /\ new.contradictions # <<>>
    /\ Len(drift.references) = 3

-----------------------------------------------------------------------------
(* Properties of _detect_contradictions_nli (checked under SpecNli)        *)

NliReturned == npc = "returned"

\* predict answered a row for every pair
NliAnswered == ~scorer.raises /\ Len(scorer.scores) >= Len(scored)

\* the index pairs (i, j), i < j, inside the window, both claims non-blank
EligiblePairs ==
    LET w == IF Len(nli_claims) < 20 THEN Len(nli_claims) ELSE 20
    IN  {p \in (1..w) \X (1..w) :
            /\ p[1] < p[2]
            /\ Strip(nli_claims[p[1]]) # <<>>
            /\ Strip(nli_claims[p[2]]) # <<>>}

LexBefore(p, q) == p[1] < q[1] \/ (p[1] = q[1] /\ p[2] < q[2])

\* how many eligible pairs come before p
PairRank(p) == Cardinality({q \in EligiblePairs : LexBefore(q, p)})

\* the pairs handed to predict are eligible pairs, each once, never more
\* than 20 of them
ScoredAsStated ==
    /\ Len(scored) <= 20
    /\ Len(scored) = IF Cardinality(EligiblePairs) < 20
                     THEN Cardinality(EligiblePairs) ELSE 20
    /\ \A k \in DOMAIN scored :
           \E p \in EligiblePairs :
               /\ PairRank(p) = k - 1
               /\ scored[k] = <<nli_claims[p[1]], nli_claims[p[2]]>>

\* the contradiction score strictly exceeds the entailment score, the
\* neutral score and 0.5 (a score the row does not hold is not exceeded by
\* default: it is left out of the comparison)
StrictlyContradicts(row) ==
    /\ Len(row) >= 1
    /\ row[1] > 50
    /\ Len(row) >= 2 => row[1] > row[2]
    /\ Len(row) >= 3 => row[1] > row[3]

FlaggedPositions ==
    {k \in DOMAIN scored : StrictlyContradicts(scorer.scores[k])}

\* one description for each flagged pair, in order, and nothing else
FlaggedAsStated ==
    /\ Len(nli_out) = Cardinality(FlaggedPositions)
    /\ \A k \in FlaggedPositions :
           LET m == Cardinality({h \in FlaggedPositions : h <= k})
           IN  nli_out[m] = NliDescription(scored[k][1], scored[k][2])

\* C19: _detect_contradictions_nli scores only pairs (claims[i], claims[j])
\* with i < j < 20 whose claims are both non-blank, each at most once and
\* never more than the maximum pair count, and returns exactly one
\* description for each scored pair whose contradiction score is strictly
\* greater than the entailment score, the neutral score and 0.5, and none
\* for any other pair.
C19_ScoresWindowedPairsFlagsStrictMaximum ==
    NliReturned /\ NliAnswered => ScoredAsStated /\ FlaggedAsStated

-----------------------------------------------------------------------------
(* Properties of _to_string_list on a list (checked under SpecCanon)       *)

\* a value as it is, or trimmed
Trims(v) == {v, StripOrKeep(v)}

IsText(v) == IsStr(v) /\ Payload(v) # <<>>

\* the preferred keys under which the object holds a non-empty string
TextKeys(pairs) ==
    SelectSeq(PreferredKeys, LAMBDA k : IsText(DictGet(pairs, k)))

\* the non-empty string values of the object, in field order
TextFields(pairs) == SelectSeq(pairs, LAMBDA pair : IsText(pair[2]))

\* the string an object element stands for: the value under the first
\* preferred key, else the first string-valued field, else the
\* stringification of the whole object when it has no string-valued field
StandsFor(item, out) ==
    LET pairs == Payload(item)
    IN  IF TextKeys(pairs) # <<>>
        THEN out \in Trims(Payload(DictGet(pairs, TextKeys(pairs)[1])))
        ELSE IF TextFields(pairs) # <<>>
        THEN out \in Trims(Payload(TextFields(pairs)[1][2]))
        ELSE out = PyStr(item)

\* C20: for a sequence input _to_string_list yields exactly one string per
\* element, and for an object element that string is the value of the first
\* preferred key (claim, risk, assumption, contradiction, goal, text,
\* entity), else the first string-valued field, else the stringification of
\* the whole object, the last only when the object has no string-valued
\* field.
C20_OneStringPerElementByPreferredKey ==
    Canonicalized /\ IsList(val) =>
        /\ Len(strs) = Len(Payload(val))
        /\ \A i \in DOMAIN Payload(val) :
               IsDict(Payload(val)[i]) => StandsFor(Payload(val)[i], strs[i])

-----------------------------------------------------------------------------
(* Properties of the busy flag (checked under SpecBusy)                    *)

\* C21: under any interleaving of concurrent /extract and /health requests
\* the busy flag reported by /health is true whenever at least one
\* extraction is in progress, and is false only when none is.
C21_HealthBusyWhileExtracting ==
    health.asked /\ health.in_progress > 0 => health.busy

====
